---- MODULE Spec2Model ----
(***************************************************************************)
(* Keyword Mapping Tool (src/keyword.py): one Streamlit script run, from   *)
(* the two upload widgets to the mapped columns, together with the         *)
(* KeywordProcessor the run builds and queries.                            *)
(*                                                                         *)
(* Strings are sequences of one-character strings, so that split, strip,   *)
(* join, lower and the character scan of the matcher are computed, not     *)
(* assumed.                                                                *)
(***************************************************************************)
EXTENDS Integers, Sequences, FiniteSets, TLC

(***************************************************************************)
(* Bounds of the model.                                                    *)
(***************************************************************************)
MaxKwLen == 2        \* longest keyword handed to the bare KeywordProcessor
MaxTextLen == 3      \* longest sentence handed to the bare KeywordProcessor
MaxKeywords == 2     \* add_keyword calls before extract_keywords
MaxDescRows == 1     \* rows of an uploaded description file
MaxKeyRows == 2      \* rows of an uploaded keyword file
MaxManualLen == 4    \* characters typed into the manual keyword box

(***************************************************************************)
(* Python values.                                                          *)
(***************************************************************************)
None == <<"None">>   \* Python None, where a string may stand
NaN == <<"NaN">>     \* a null/missing cell of a parsed file (numpy.nan)
Dash == <<"-">>      \* the literal "-"

Str(s) == s          \* astype(str) on a cell that already is a str

\* strings of length 0..n over the alphabet A
RECURSIVE StringsUpTo(_, _)
StringsUpTo(A, n) ==
    IF n = 0 THEN {<<>>}
    ELSE LET shorter == StringsUpTo(A, n - 1)
         IN  shorter \cup {Append(s, c) : s \in {t \in shorter : Len(t) = n - 1}, c \in A}

\* str.lower() on the characters of the model
LowerChar(c) == IF c = "A" THEN "a" ELSE IF c = "B" THEN "b" ELSE c
Lower(s) == [i \in 1..Len(s) |-> LowerChar(s[i])]

\* sep.join(parts), parts a sequence of strings
RECURSIVE Join(_, _)
Join(sep, parts) ==
    IF Len(parts) = 0 THEN <<>>
    ELSE IF Len(parts) = 1 THEN parts[1]
    ELSE parts[1] \o sep \o Join(sep, Tail(parts))

\* s.startswith(p)
StartsWith(s, p) == Len(p) <= Len(s) /\ SubSeq(s, 1, Len(p)) = p

\* s.split(sep) for a non-empty separator: always at least one part
RECURSIVE SplitFrom(_, _, _)
SplitFrom(s, sep, cur) ==
    IF Len(s) = 0 THEN <<cur>>
    ELSE IF StartsWith(s, sep)
         THEN <<cur>> \o SplitFrom(SubSeq(s, Len(sep) + 1, Len(s)), sep, <<>>)
         ELSE SplitFrom(Tail(s), sep, Append(cur, Head(s)))
Split(s, sep) == SplitFrom(s, sep, <<>>)

\* s.strip(): whitespace removed from both ends
IsSpace(c) == c = " "
RECURSIVE LStrip(_)
LStrip(s) == IF Len(s) > 0 /\ IsSpace(Head(s)) THEN LStrip(Tail(s)) ELSE s
RECURSIVE RStrip(_)
RStrip(s) == IF Len(s) > 0 /\ IsSpace(s[Len(s)]) THEN RStrip(SubSeq(s, 1, Len(s) - 1)) ELSE s
\* a strip that removes nothing
StripNothing(s) == s
Strip(s) == RStrip(LStrip(s))

\* the elements of a list, as a set
ToSet(seq) == {seq[i] : i \in 1..Len(seq)}

\* every list that holds each element of S exactly once: the orders in which
\* iterating a Python set may yield its elements
Orderings(S) ==
    {f \in [1..Cardinality(S) -> S] : \A x \in S : \E i \in 1..Cardinality(S) : f[i] = x}

(***************************************************************************)
(* flashtext.KeywordProcessor, as constructed at line 98 with its          *)
(* defaults: case_sensitive = False, and the letters, digits and "_" as    *)
(* non_word_boundaries.  The trie is held as the function from each stored *)
(* (lower-cased) keyword to its clean name; a node of the trie is the      *)
(* path that leads to it.                                                  *)
(***************************************************************************)
case_sensitive == FALSE

\* an empty non_word_boundaries set: every character ends a word
NonWordBoundaryNone(c) == FALSE
\* char in self.non_word_boundaries
NonWordBoundary(c) == c \in {"a", "b", "A", "B", "p", "q", "_", "0", "1"}

EmptyTrie == <<>>

\* KeywordProcessor.add_keyword(keyword): the clean name defaults to the
\* keyword as given, the key is lower-cased, an empty keyword is not stored
add_keyword(trie, keyword) ==
    IF Len(keyword) = 0 THEN trie
    ELSE LET key == IF case_sensitive THEN keyword ELSE Lower(keyword)
         IN  [k \in (DOMAIN trie) \cup {key} |-> IF k = key THEN keyword ELSE trie[k]]

\* self._keyword in current_dict
HasKeyword(trie, node) == node \in DOMAIN trie
\* char in current_dict
HasChild(trie, node, c) == \E k \in DOMAIN trie : StartsWith(k, Append(node, c))

\* the inner "re look for longest_sequence from this position" loop;
\* st = [longest, end, longer]; idy is a 0-based index as in the library
RECURSIVE LongestFrom(_, _, _, _, _)
LongestFrom(trie, s, idy, node, st) ==
    IF idy >= Len(s)
    THEN \* the while loop's else clause: end of sentence reached
         IF HasKeyword(trie, node)
         THEN [longest |-> trie[node], end |-> idy, longer |-> TRUE]
         ELSE st
    ELSE LET inner_char == s[idy + 1]
             st1 == IF ~NonWordBoundary(inner_char) /\ HasKeyword(trie, node)
                    THEN [longest |-> trie[node], end |-> idy, longer |-> TRUE]
                    ELSE st
         IN  IF HasChild(trie, node, inner_char)
             THEN LongestFrom(trie, s, idy + 1, Append(node, inner_char), st1)
             ELSE st1

\* "skip to end of word": the first index from idy on that holds a word boundary
RECURSIVE SkipWord(_, _)
SkipWord(s, idy) ==
    IF idy < Len(s) /\ NonWordBoundary(s[idy + 1]) THEN SkipWord(s, idy + 1) ELSE idy

\* the main loop of extract_keywords; s is already lower-cased, idx is 0-based,
\* node is current_dict, out the list keywords_extracted
RECURSIVE Scan(_, _, _, _, _)
Scan(trie, s, idx, node, out) ==
    IF idx >= Len(s) THEN out
    ELSE
      LET char == s[idx + 1]
          step ==
            IF ~NonWordBoundary(char)
            THEN IF HasKeyword(trie, node) \/ HasChild(trie, node, char)
                 THEN LET st0 == IF HasKeyword(trie, node)
                                 THEN [longest |-> trie[node], end |-> idx, longer |-> FALSE]
                                 ELSE [longest |-> None, end |-> idx, longer |-> FALSE]
                          st == IF HasChild(trie, node, char)
                                THEN LongestFrom(trie, s, idx + 1, Append(node, char), st0)
                                ELSE st0
                      IN  [idx |-> IF st.longer THEN st.end ELSE idx,
                           node |-> <<>>,
                           out |-> IF st.longest # None THEN Append(out, st.longest) ELSE out]
                 ELSE [idx |-> idx, node |-> <<>>, out |-> out]
            ELSE IF HasChild(trie, node, char)
                 THEN [idx |-> idx, node |-> Append(node, char), out |-> out]
                 ELSE [idx |-> SkipWord(s, idx + 1), node |-> <<>>, out |-> out]
          \* "if we are end of sentence and have a sequence discovered"
          out2 == IF step.idx + 1 >= Len(s) /\ HasKeyword(trie, step.node)
                  THEN Append(step.out, trie[step.node])
                  ELSE step.out
      IN  Scan(trie, s, step.idx + 1, step.node, out2)

\* KeywordProcessor.extract_keywords(sentence): the list of clean names found
kp_extract_keywords(trie, sentence) ==
    IF Len(sentence) = 0 THEN <<>>
    ELSE Scan(trie, IF case_sensitive THEN sentence ELSE Lower(sentence), 0, <<>>, <<>>)

(***************************************************************************)
(* State.  The first group is the script run of src/keyword.py, the second *)
(* a KeywordProcessor used on its own.                                     *)
(***************************************************************************)
VARIABLES
    pc,                 \* the statement the script run has reached
    desc_dataset_file,  \* line 58: the uploaded description file
    desc_dataset,       \* line 61
    desc_columns,       \* lines 59, 65
    Concatenated_Description,  \* line 67: the column, one string per row
    key_dataset_file,   \* line 70
    manual_keywords,    \* line 74
    key_data,           \* lines 77, 80, 88
    key_columns,        \* lines 76, 84, 89
    prod_columns,       \* lines 76, 86
    button_offered,     \* line 95: the Start Mapping button was rendered
    keyword_processor,  \* line 98
    product_map,        \* line 99
    Mapped_Keyword,     \* line 115: the column, one string per row
    Mapped_Product,     \* line 117: the column, one string per row
    matched,            \* line 112: per row, the set the row's keywords were joined from
    messages,           \* what st.error / st.warning / st.info / st.success have shown
    exception,          \* the unhandled exception that ended the run, if any
    kp_pc,              \* the bare KeywordProcessor: "adding", "extracted" or "off"
    kp_trie,            \* its keyword_trie_dict
    kp_added,           \* the keywords handed to add_keyword so far
    kp_sentence,        \* the sentence handed to extract_keywords
    kp_found            \* set(extract_keywords(sentence))

script_vars == <<pc, desc_dataset_file, desc_dataset, desc_columns, Concatenated_Description,
                 key_dataset_file, manual_keywords, key_data, key_columns, prod_columns,
                 button_offered, keyword_processor, product_map, Mapped_Keyword,
                 Mapped_Product, matched, messages, exception>>
kp_vars == <<kp_pc, kp_trie, kp_added, kp_sentence, kp_found>>
vars == <<script_vars, kp_vars>>

(***************************************************************************)
(* A KeywordProcessor on its own: any keywords added, then one sentence    *)
(* searched (lines 98, 105, 112 without the tables around them).           *)
(***************************************************************************)
KpAlphabet == {"a", "A", " "}
KpKeywords == StringsUpTo(KpAlphabet, MaxKwLen) \ {<<>>}
KpSentences == StringsUpTo(KpAlphabet, MaxTextLen)

ScriptOff ==
    /\ pc = "off"
    /\ desc_dataset_file = <<>> /\ desc_dataset = <<>> /\ desc_columns = <<>>
    /\ Concatenated_Description = <<>> /\ key_dataset_file = <<>>
    /\ manual_keywords = <<>> /\ key_data = <<>> /\ key_columns = <<>>
    /\ prod_columns = <<>> /\ button_offered = FALSE /\ keyword_processor = EmptyTrie
    /\ product_map = <<>> /\ Mapped_Keyword = <<>> /\ Mapped_Product = <<>>
    /\ matched = <<>> /\ messages = {} /\ exception = "none"

InitKP ==
    /\ ScriptOff
    /\ kp_pc = "adding"
    /\ kp_trie = EmptyTrie
    /\ kp_added = {}
    /\ kp_sentence = <<>>
    /\ kp_found = {}

\* keyword_processor.add_keyword(keyword)
KpAddKeyword ==
    /\ kp_pc = "adding"
    /\ Cardinality(kp_added) < MaxKeywords
    /\ \E keyword \in KpKeywords \ kp_added :
         /\ kp_trie' = add_keyword(kp_trie, keyword)
         /\ kp_added' = kp_added \cup {keyword}
    /\ UNCHANGED <<kp_pc, kp_sentence, kp_found, script_vars>>

\* set(keyword_processor.extract_keywords(description))
KpExtract ==
    /\ kp_pc = "adding"
    /\ \E sentence \in KpSentences :
         /\ kp_sentence' = sentence
         /\ kp_found' = ToSet(kp_extract_keywords(kp_trie, sentence))
    /\ kp_pc' = "extracted"
    /\ UNCHANGED <<kp_trie, kp_added, script_vars>>

NextKP == KpAddKeyword \/ KpExtract
SpecKP == InitKP /\ [][NextKP]_vars

(***************************************************************************)
(* The script run: what the widgets can hand to it.                        *)
(***************************************************************************)
\* an uploaded file: its name's extension, and what parsing it yields (the rows
\* of the parsed table, with NaN for a missing cell, when well_formed)
UploadedFile(ext, ok, rows) == [uploaded |-> TRUE, ext |-> ext, well_formed |-> ok, rows |-> rows]
NoFile == [uploaded |-> FALSE, ext |-> "", well_formed |-> FALSE, rows |-> <<>>]

\* a DataFrame, or None
DataFrame(rows) == [is_none |-> FALSE, rows |-> rows]
NoneFrame == [is_none |-> TRUE, rows |-> <<>>]

\* tables of 1..n rows
RECURSIVE TablesUpTo(_, _)
TablesUpTo(Rows, n) ==
    IF n = 0 THEN {} ELSE
    IF n = 1 THEN {<<r>> : r \in Rows}
    ELSE LET shorter == TablesUpTo(Rows, n - 1)
         IN  shorter \cup {Append(t, r) : t \in {u \in shorter : Len(u) = n - 1}, r \in Rows}

\* the columns hold text: a cell is a string, or NaN where the file has no value
DescCells == {NaN, <<"a", ",", " ", "b">>}
DescRows == [D1 : DescCells, D2 : DescCells]
DescSelections == {<<>>, <<"D1">>, <<"D2">>, <<"D1", "D2">>, <<"D2", "D1">>}

KeywordCells == {NaN, <<"a">>, <<"a", ",", " ", "b">>}
ProductCells == {NaN, <<"p">>}
KeyRows == [K1 : KeywordCells, P1 : ProductCells]
KeySelections == {<<>>, <<"K1">>}
ProdSelections == {<<>>, <<"P1">>}

\* the files a user may upload: a well-formed .csv of any table, a well-formed
\* .xlsx or .json of a one-row table, a malformed file of each of the three
\* kinds, and a file whose name ends in none of the three extensions
Uploads(Rows, n) ==
    {UploadedFile(".csv", TRUE, t) : t \in TablesUpTo(Rows, n)}
      \cup {UploadedFile(e, TRUE, t) : e \in {".xlsx", ".json"}, t \in TablesUpTo(Rows, 1)}
      \cup {UploadedFile(e, FALSE, <<>>) : e \in {".csv", ".xlsx", ".json"}}
      \cup {UploadedFile(".CSV", TRUE, <<>>)}

DescUploads == Uploads(DescRows, MaxDescRows)
KeyUploads == Uploads(KeyRows, MaxKeyRows)

ManualAlphabet == {"a", ",", " "}
ManualTexts == StringsUpTo(ManualAlphabet, MaxManualLen)
\* what the manual box may hold while a keyword file is uploaded as well
ManualTextsBesideFile == {<<>>, <<"a">>}

(***************************************************************************)
(* Lines 26-40: the helpers.                                               *)
(***************************************************************************)
\* DataFrame.fillna("-")
FillNa(rows) ==
    [i \in 1..Len(rows) |-> [c \in DOMAIN rows[i] |-> IF rows[i][c] = NaN THEN Dash ELSE rows[i][c]]]

\* load_data(file): [data, error]; error is the st.error of the except clause
load_data(file) ==
    IF file.ext \in {".csv", ".xlsx", ".json"}
    THEN IF file.well_formed
         THEN [data |-> DataFrame(FillNa(file.rows)), error |-> FALSE]
         ELSE [data |-> NoneFrame, error |-> TRUE]
    ELSE [data |-> NoneFrame, error |-> FALSE]

\* pd.notnull(value)
notnull(value) == value # NaN

\* [row[col] for col in columns if pd.notnull(row[col])]; row.dropna() of row[columns]
RECURSIVE NotNullCells(_, _)
NotNullCells(row, columns) ==
    IF Len(columns) = 0 THEN <<>>
    ELSE (IF notnull(row[Head(columns)]) THEN <<row[Head(columns)]>> ELSE <<>>)
           \o NotNullCells(row, Tail(columns))

\* concatenate_columns(df, columns); the trailing fillna finds no null to fill
concatenate_columns(rows, columns) ==
    [i \in 1..Len(rows) |->
        Join(<<" ">>, [j \in 1..Len(NotNullCells(rows[i], columns)) |->
                          Str(NotNullCells(rows[i], columns)[j])])]

(***************************************************************************)
(* The script run, statement by statement.                                 *)
(***************************************************************************)
ErrorReadingFile == "error: Error reading file"
WarnPreviewDesc == "warning: Preview limited to the first 1000 rows. (line 63)"
WarnPreviewKey == "warning: Preview limited to the first 1000 rows. (line 71)"
WarnKeywordColumn == "warning: Please provide at least one keyword column."
InfoInitializing == "info: Initializing Keyword & Product Mapping..."
InfoProcessing == "info: Processing Descriptions..."
SuccessCompleted == "success: Mapping Completed!"

Init ==
    /\ pc = "line58"
    /\ desc_dataset_file = NoFile
    /\ desc_dataset = NoneFrame
    /\ desc_columns = <<>>
    /\ Concatenated_Description = <<>>
    /\ key_dataset_file = NoFile
    /\ manual_keywords = <<>>
    /\ key_data = NoneFrame
    /\ key_columns = <<>>
    /\ prod_columns = <<>>
    /\ button_offered = FALSE
    /\ keyword_processor = EmptyTrie
    /\ product_map = <<>>
    /\ Mapped_Keyword = <<>>
    /\ Mapped_Product = <<>>
    /\ matched = <<>>
    /\ messages = {}
    /\ exception = "none"
    /\ kp_pc = "off"
    /\ kp_trie = EmptyTrie
    /\ kp_added = {}
    /\ kp_sentence = <<>>
    /\ kp_found = {}

\* lines 58-67: the description upload block
DescriptionUpload ==
    /\ pc = "line58"
    /\ \E file \in {NoFile} \cup DescUploads :
       \* the multiselect is rendered only for a file that loaded
       \E selected \in (IF load_data(file).data.is_none THEN {<<>>} ELSE DescSelections) :
         LET loaded == load_data(file) IN
         /\ desc_dataset_file' = file
         /\ IF ~file.uploaded
            THEN \* line 60 is false: desc_columns stays [], desc_dataset stays unbound
                 /\ UNCHANGED <<desc_dataset, desc_columns, Concatenated_Description,
                                messages, exception>>
                 /\ pc' = "line70"
            ELSE /\ desc_dataset' = loaded.data
                 /\ IF loaded.data.is_none
                    THEN \* line 62: None has no attribute 'head'
                         /\ messages' = messages \cup (IF loaded.error THEN {ErrorReadingFile} ELSE {})
                         /\ exception' = "AttributeError"
                         /\ pc' = "crashed"
                         /\ UNCHANGED <<desc_columns, Concatenated_Description>>
                    ELSE /\ messages' = messages \cup {WarnPreviewDesc}
                         /\ desc_columns' = selected
                         /\ Concatenated_Description' =
                              IF selected # <<>>
                              THEN concatenate_columns(loaded.data.rows, selected)
                              ELSE <<>>
                         /\ UNCHANGED exception
                         /\ pc' = "line70"
    /\ UNCHANGED <<key_dataset_file, manual_keywords, key_data, key_columns, prod_columns,
                   button_offered, keyword_processor, product_map, Mapped_Keyword,
                   Mapped_Product, matched, kp_vars>>

\* line 88: [kw.strip() for kw in manual_keywords.split(",") if kw.strip()]
ManualList(text) ==
    LET parts == Split(text, <<",">>)
    IN  SelectSeq([i \in 1..Len(parts) |-> Strip(parts[i])], LAMBDA kw : kw # <<>>)

\* a keyword source that falls back to the manual text when the file does not load
KeySourceFallsBack(file, text, key_sel, prod_sel) ==
    LET loaded == load_data(file) IN
    IF file.uploaded /\ ~loaded.data.is_none
    THEN [key_data |-> loaded.data, key_columns |-> key_sel, prod_columns |-> prod_sel,
          error |-> loaded.error]
    ELSE IF text # <<>>
    THEN [key_data |-> DataFrame([i \in 1..Len(ManualList(text)) |->
                                     [Keywords |-> ManualList(text)[i]]]),
          key_columns |-> <<"Keywords">>, prod_columns |-> <<>>,
          error |-> file.uploaded /\ loaded.error]
    ELSE [key_data |-> NoneFrame, key_columns |-> <<>>, prod_columns |-> <<>>,
          error |-> file.uploaded /\ loaded.error]
\* lines 79-89: which table the keywords come from; file and text are the values
\* of the two widgets of lines 70 and 74
KeySource(file, text, key_sel, prod_sel) ==
    LET loaded == load_data(file) IN
    IF file.uploaded
    THEN IF ~loaded.data.is_none
         THEN [key_data |-> loaded.data, key_columns |-> key_sel, prod_columns |-> prod_sel,
               error |-> loaded.error]
         ELSE [key_data |-> NoneFrame, key_columns |-> <<>>, prod_columns |-> <<>>,
               error |-> loaded.error]
    ELSE IF text # <<>>
    THEN [key_data |-> DataFrame([i \in 1..Len(ManualList(text)) |->
                                     [Keywords |-> ManualList(text)[i]]]),
          key_columns |-> <<"Keywords">>, prod_columns |-> <<>>, error |-> FALSE]
    ELSE [key_data |-> NoneFrame, key_columns |-> <<>>, prod_columns |-> <<>>, error |-> FALSE]

\* lines 70-89: the keyword upload, the manual box and the keyword source
KeywordUpload ==
    /\ pc = "line70"
    /\ \E file \in {NoFile} \cup KeyUploads :
       \E text \in (IF file.uploaded THEN ManualTextsBesideFile ELSE ManualTexts) :
       \* the two multiselects are rendered only for a file that loaded
       \E key_sel \in (IF load_data(file).data.is_none THEN {<<>>} ELSE KeySelections) :
       \E prod_sel \in (IF load_data(file).data.is_none THEN {<<>>} ELSE ProdSelections) :
         LET src == KeySource(file, text, key_sel, prod_sel) IN
         /\ key_dataset_file' = file
         /\ manual_keywords' = text
         /\ key_data' = src.key_data
         /\ key_columns' = src.key_columns
         /\ prod_columns' = src.prod_columns
         /\ messages' = messages \cup {WarnPreviewKey}
                          \cup (IF src.error THEN {ErrorReadingFile} ELSE {})
    /\ pc' = "line91"
    /\ UNCHANGED <<desc_dataset_file, desc_dataset, desc_columns, Concatenated_Description,
                   button_offered, keyword_processor, product_map, Mapped_Keyword,
                   Mapped_Product, matched, exception, kp_vars>>

\* line 94
MappingAllowed == desc_columns # <<>> /\ ~key_data.is_none /\ key_columns # <<>>

\* lines 91-96: the warning, the guard and the button; lines 135-142 when the
\* mapping does not start
MappingGuard ==
    /\ pc = "line91"
    /\ button_offered' = MappingAllowed
    /\ \E clicked \in BOOLEAN :
         /\ ~MappingAllowed => ~clicked
         /\ messages' = messages \cup (IF key_columns = <<>> THEN {WarnKeywordColumn} ELSE {})
                                 \cup (IF clicked THEN {InfoInitializing} ELSE {})
         \* without a click the run goes on to the footer (lines 135-142) and ends
         /\ pc' = IF clicked THEN "line98" ELSE "done"
    /\ UNCHANGED <<desc_dataset_file, desc_dataset, desc_columns, Concatenated_Description,
                   key_dataset_file, manual_keywords, key_data, key_columns, prod_columns,
                   keyword_processor, product_map, Mapped_Keyword, Mapped_Product, matched,
                   exception, kp_vars>>

\* dict.get(key, default)
Get(map, key, default) == IF key \in DOMAIN map THEN map[key] ELSE default

\* product_map[keyword] = value
Put(map, key, value) ==
    [k \in (DOMAIN map) \cup {key} |-> IF k = key THEN value ELSE map[k]]

\* line 106: ", ".join(products) if products else "-"
ProductString(products) ==
    IF Len(products) > 0 THEN Join(<<",", " ">>, products) ELSE Dash

\* lines 104-106: the inner loop over one row's keywords; idx = [kp, pm]
RECURSIVE AddKeywords(_, _, _)
AddKeywords(idx, keywords, products) ==
    IF Len(keywords) = 0 THEN idx
    ELSE AddKeywords([kp |-> add_keyword(idx.kp, Head(keywords)),
                      pm |-> Put(idx.pm, Head(keywords), ProductString(products))],
                     Tail(keywords), products)

\* lines 101-106: the loop over key_data.iterrows()
RECURSIVE BuildRows(_, _, _, _)
BuildRows(idx, rows, kcols, pcols) ==
    IF Len(rows) = 0 THEN idx
    ELSE BuildRows(AddKeywords(idx, NotNullCells(Head(rows), kcols),
                               NotNullCells(Head(rows), pcols)),
                   Tail(rows), kcols, pcols)

\* lines 98-106: the KeywordProcessor and product_map are built
BuildIndex ==
    /\ pc = "line98"
    /\ LET built == BuildRows([kp |-> EmptyTrie, pm |-> <<>>], key_data.rows,
                              key_columns, prod_columns)
       IN  /\ keyword_processor' = built.kp
           /\ product_map' = built.pm
    /\ pc' = "line108"
    /\ UNCHANGED <<desc_dataset_file, desc_dataset, desc_columns, Concatenated_Description,
                   key_dataset_file, manual_keywords, key_data, key_columns, prod_columns,
                   button_offered, Mapped_Keyword, Mapped_Product, matched, messages,
                   exception, kp_vars>>

\* lines 111-113: extract_keywords(description); a Python set is iterated in an
\* order the language does not fix, so every order is a possible result
extract_keywords(kp, description) ==
    LET matched_keywords == ToSet(kp_extract_keywords(kp, description))
    IN  IF matched_keywords # {}
        THEN {Join(<<",", " ">>, order) : order \in Orderings(matched_keywords)}
        ELSE {Dash}

\* lines 117-119: the lambda that maps a Mapped_Keyword string to Mapped_Product
ProductResults(pm, x) ==
    IF x # Dash
    THEN LET ks == {k \in ToSet(Split(x, <<",", " ">>)) : k # <<>>}
             resolved == {Get(pm, k, Dash) : k \in ks}
         IN  {Join(<<",", " ">>, order) : order \in Orderings(resolved)}
    ELSE {Dash}

\* lines 108-121: the two mapped columns are computed; then the footer of lines
\* 135-142, and the script run ends
MapDescriptions ==
    /\ pc = "line108"
    /\ IF desc_columns # <<>>   \* 'Concatenated_Description' in desc_dataset
       THEN LET n == Len(Concatenated_Description) IN
            /\ matched' = [i \in 1..n |->
                             ToSet(kp_extract_keywords(keyword_processor,
                                                       Concatenated_Description[i]))]
            /\ \E mk \in [1..n -> UNION {extract_keywords(keyword_processor,
                                            Concatenated_Description[i]) : i \in 1..n}] :
                 /\ \A i \in 1..n :
                      mk[i] \in extract_keywords(keyword_processor, Concatenated_Description[i])
                 /\ Mapped_Keyword' = mk
                 /\ \E mp \in [1..n -> UNION {ProductResults(product_map, mk[i]) : i \in 1..n}] :
                      /\ \A i \in 1..n : mp[i] \in ProductResults(product_map, mk[i])
                      /\ Mapped_Product' = mp
            /\ messages' = messages \cup {InfoProcessing, SuccessCompleted}
       ELSE UNCHANGED <<matched, Mapped_Keyword, Mapped_Product, messages>>
    /\ pc' = "done"
    /\ UNCHANGED <<desc_dataset_file, desc_dataset, desc_columns, Concatenated_Description,
                   key_dataset_file, manual_keywords, key_data, key_columns, prod_columns,
                   button_offered, keyword_processor, product_map, exception, kp_vars>>

Next == DescriptionUpload \/ KeywordUpload \/ MappingGuard \/ BuildIndex \/ MapDescriptions
Spec == Init /\ [][Next]_vars

(***************************************************************************)
(* Vocabulary of the properties.                                           *)
(***************************************************************************)
\* k occurs in T as a literal substring
IsSubstring(k, T) == \E i \in 1..(Len(T) - Len(k) + 1) : SubSeq(T, i, i + Len(k) - 1) = k

\* letters, digits and "_"
WordChars == {"a", "b", "A", "B", "p", "q", "_", "0", "1"}

\* k occurs in T as a substring that starts at the start of T or after a
\* non-word character, and ends at the end of T or before a non-word character
OccursAsWord(k, T) ==
    \E i \in 1..(Len(T) - Len(k) + 1) :
        /\ SubSeq(T, i, i + Len(k) - 1) = k
        /\ (i + Len(k) > Len(T) \/ T[i + Len(k)] \notin WordChars)
        /\ (i = 1 \/ T[i - 1] \notin WordChars)

OnlyWordChars(k) == \A i \in 1..Len(k) : k[i] \in WordChars

\* the index of lines 98-106 has been built in this run
IndexBuilt == pc = "line108" \/ (pc = "done" /\ InfoInitializing \in messages)
\* the mapping pass of lines 108-121 has run
MappingRan == pc = "done" /\ SuccessCompleted \in messages

\* the ways of writing a set of strings as one ", "-joined string
Joined(S) == {Join(<<",", " ">>, order) : order \in Orderings(S)}

(***************************************************************************)
(* C1.  As claimed: the keywords reported for a text are exactly the       *)
(* registered keywords that occur in it as literal, case-sensitive         *)
(* substrings, word boundary or not.                                       *)
(***************************************************************************)
C1_ExactSubstringSet ==
    kp_pc = "extracted" => kp_found = {k \in kp_added : IsSubstring(k, kp_sentence)}

\* C1, amended: every reported keyword is a registered keyword that occurs in
\* the text, letter case ignored, as a word-delimited substring; and every
\* registered keyword made of word characters only that so occurs is reported or
\* lies, letter case ignored, inside a reported keyword.  A keyword found only
\* inside a longer word ("cat" in "category") is not reported.
C1_WordDelimitedCaseInsensitive ==
    kp_pc = "extracted" =>
        /\ kp_found \subseteq kp_added
        /\ \A k \in kp_found : OccursAsWord(Lower(k), Lower(kp_sentence))
        /\ \A k \in kp_added :
             OnlyWordChars(k) /\ OccursAsWord(Lower(k), Lower(kp_sentence))
                => \E f \in kp_found : IsSubstring(Lower(k), Lower(f))

\* a keyword is reported while another registered keyword, a literal substring of
\* the text, is left out
C1_Witness ==
    /\ kp_pc = "extracted"
    /\ kp_found # {}
    /\ \E k \in kp_added \ kp_found : IsSubstring(k, kp_sentence)

(***************************************************************************)
(* C2.  As claimed: for every row with at least one matched keyword,       *)
(* Mapped_Product is the join of exactly the set of the matched keywords'  *)
(* registered product strings ("-" for an empty list), whatever the        *)
(* keywords contain, ", " included.                                        *)
(***************************************************************************)
C2_ProductsOfMatchedKeywords ==
    MappingRan =>
        \A i \in 1..Len(Mapped_Product) :
            matched[i] # {} =>
                Mapped_Product[i] \in Joined({Get(product_map, k, Dash) : k \in matched[i]})

(***************************************************************************)
(* C3.  As claimed: a row in which no registered keyword is found gets "-" *)
(* in both mapped columns, and a row in which one is found never ends with *)
(* "-" in both.                                                            *)
(***************************************************************************)
C3_DashOnlyForEmptyMatch ==
    MappingRan =>
        \A i \in 1..Len(Mapped_Keyword) :
            /\ matched[i] = {} => Mapped_Keyword[i] = Dash /\ Mapped_Product[i] = Dash
            /\ matched[i] # {} => ~(Mapped_Keyword[i] = Dash /\ Mapped_Product[i] = Dash)

(***************************************************************************)
(* C4.  As claimed: a keyword registered more than once keeps the product  *)
(* list of its last registration in row order only, and a row that matches *)
(* the keyword is mapped to that product list only.                        *)
(***************************************************************************)
\* the rows of key_data that register k
RegisteringRows(k) ==
    {r \in 1..Len(key_data.rows) : \E j \in 1..Len(key_columns) : key_data.rows[r][key_columns[j]] = k}
\* how often k is registered
Registrations(k) ==
    Cardinality({<<r, j>> \in (1..Len(key_data.rows)) \X (1..Len(key_columns)) :
                    key_data.rows[r][key_columns[j]] = k})
\* the product string of the last row that registers k
LastProducts(k) ==
    LET last == CHOOSE r \in RegisteringRows(k) : \A r2 \in RegisteringRows(k) : r2 <= r
    IN  ProductString(NotNullCells(key_data.rows[last], prod_columns))

C4_LastRegistrationWins ==
    MappingRan =>
        \A k \in DOMAIN product_map :
            Registrations(k) > 1 =>
                /\ product_map[k] = LastProducts(k)
                /\ \A i \in 1..Len(Mapped_Product) :
                     matched[i] = {k} => Mapped_Product[i] = LastProducts(k)

(***************************************************************************)
(* C5.  Manual keywords: the registered keywords are exactly the distinct  *)
(* non-empty trimmed tokens of the comma-separated text, each without      *)
(* products, so each resolves to "-" in Mapped_Product.                    *)
(***************************************************************************)
\* the maximal comma-free pieces of the text
Tokens(text) ==
    {SubSeq(text, i, j) : <<i, j>> \in
        {<<a, b>> \in (1..Len(text) + 1) \X (0..Len(text)) :
            /\ a <= b + 1
            /\ a = 1 \/ text[a - 1] = ","
            /\ b = Len(text) \/ text[b + 1] = ","
            /\ \A m \in a..b : text[m] # ","}}
\* the piece without the blanks at its two ends
Trimmed(tok) ==
    CHOOSE t \in {SubSeq(tok, a, b) : <<a, b>> \in (1..Len(tok) + 1) \X (0..Len(tok))} :
        \E a \in 1..Len(tok) + 1, b \in 0..Len(tok) :
            /\ t = SubSeq(tok, a, b)
            /\ \A m \in 1..Len(tok) : (m < a \/ m > b) => tok[m] = " "
            /\ a <= b => tok[a] # " " /\ tok[b] # " "
            /\ a > b => t = <<>>
ManualSource == ~key_dataset_file.uploaded /\ manual_keywords # <<>>

C5_ManualKeywords ==
    ManualSource /\ IndexBuilt =>
        /\ DOMAIN product_map = {Trimmed(tok) : tok \in Tokens(manual_keywords)} \ {<<>>}
        /\ DOMAIN keyword_processor = {Lower(k) : k \in DOMAIN product_map}
        /\ \A k \in DOMAIN product_map : product_map[k] = Dash
        /\ MappingRan => \A i \in 1..Len(Mapped_Product) : Mapped_Product[i] = Dash

\* a manual text with a repeated token and an empty token, one keyword found in
\* a row
C5_Witness ==
    /\ ManualSource /\ MappingRan
    /\ Cardinality(DOMAIN product_map) < Len(key_data.rows)
    /\ Len(key_data.rows) < Len(Split(manual_keywords, <<",">>))
    /\ \E i \in 1..Len(Mapped_Keyword) : Mapped_Keyword[i] # Dash /\ Mapped_Product[i] = Dash

(***************************************************************************)
(* C6.  As claimed: when loading an uploaded file fails, for either        *)
(* upload, an error message is shown, load_data returns no data, no later  *)
(* step dereferences the missing table, and the run goes on to its end     *)
(* without an unhandled exception.                                         *)
(***************************************************************************)
LoadFails(file) == file.uploaded /\ ~(file.ext \in {".csv", ".xlsx", ".json"} /\ file.well_formed)

C6_LoadFailureHandled ==
    /\ pc # "line58" /\ LoadFails(desc_dataset_file) =>
         /\ ErrorReadingFile \in messages
         /\ desc_dataset.is_none
         /\ exception = "none" /\ pc # "crashed"
    /\ pc \notin {"line58", "line70"} /\ LoadFails(key_dataset_file) =>
         /\ ErrorReadingFile \in messages
         /\ key_data.is_none
         /\ exception = "none" /\ pc # "crashed"

(***************************************************************************)
(* C7.  As claimed: in every script run where a required selection is      *)
(* missing (no description column, or no keyword column), the Start        *)
(* Mapping button is not offered, no mapping pass runs, a warning is shown *)
(* and no exception is raised.  Any st.warning counts as the warning here. *)
(***************************************************************************)
RunEnded == pc \in {"done", "crashed"}
IsWarning(m) == m \in {WarnPreviewDesc, WarnPreviewKey, WarnKeywordColumn}

C7_MissingSelectionBlocked ==
    RunEnded /\ (desc_columns = <<>> \/ key_columns = <<>>) =>
        /\ ~button_offered
        /\ ~MappingRan /\ Mapped_Keyword = <<>> /\ Mapped_Product = <<>>
        /\ \E m \in messages : IsWarning(m)
        /\ exception = "none"

(***************************************************************************)
(* C8.  As claimed: a null cell in a selected keyword column of an         *)
(* uploaded keyword file registers no keyword and adds no entry to the     *)
(* keyword-to-product map, and a null cell in a selected product column    *)
(* adds nothing to its row's product list.                                 *)
(***************************************************************************)
FileSource == key_dataset_file.uploaded /\ ~key_data.is_none
\* the cells of the uploaded file, as parsed, in the selected keyword columns
FileKeywords ==
    {key_dataset_file.rows[r][key_columns[j]] :
        <<r, j>> \in (1..Len(key_dataset_file.rows)) \X (1..Len(key_columns))} \ {NaN}
\* the product string of the file's last row that holds k, nulls left out
FileProducts(k) ==
    LET rows == key_dataset_file.rows
        holds(r) == \E j \in 1..Len(key_columns) : rows[r][key_columns[j]] = k
        last == CHOOSE r \in 1..Len(rows) : holds(r) /\ \A r2 \in 1..Len(rows) : holds(r2) => r2 <= r
    IN  ProductString(SelectSeq([j \in 1..Len(prod_columns) |-> rows[last][prod_columns[j]]],
                                LAMBDA cell : cell # NaN))

C8_NullCellsSkipped ==
    FileSource /\ IndexBuilt =>
        /\ DOMAIN product_map = FileKeywords
        /\ DOMAIN keyword_processor = {Lower(k) : k \in FileKeywords}
        /\ \A k \in FileKeywords : Get(product_map, k, None) = FileProducts(k)

(***************************************************************************)
(* C9.  As claimed: Concatenated_Description is the single-space join, in  *)
(* selection order, of the string forms of the selected cells that are not *)
(* null in the uploaded file; a null cell adds nothing to the text.        *)
(***************************************************************************)
C9_ConcatenationDropsNulls ==
    pc \notin {"line58", "crashed"} /\ desc_columns # <<>> =>
        /\ Len(Concatenated_Description) = Len(desc_dataset_file.rows)
        /\ \A i \in 1..Len(desc_dataset_file.rows) :
             Concatenated_Description[i] =
                 Join(<<" ">>, SelectSeq([j \in 1..Len(desc_columns) |->
                                             desc_dataset_file.rows[i][desc_columns[j]]],
                                         LAMBDA cell : cell # NaN))

(***************************************************************************)
(* C10.  Keyword-source precedence: with a keyword file uploaded the       *)
(* manual keywords are never used; if that file fails to load, key_data    *)
(* stays empty and the mapping action is not offered, manual text or not.  *)
(* Manual keywords are the source only when no keyword file is uploaded.   *)
(***************************************************************************)
\* key_data is the table made of the manual text at line 88
ManualTable == ~key_data.is_none /\ \A r \in 1..Len(key_data.rows) : DOMAIN key_data.rows[r] = {"Keywords"}

C10_FileBeforeManual ==
    pc \notin {"line58", "line70"} =>
        /\ key_dataset_file.uploaded =>
             /\ key_data.is_none \/ key_data.rows = FillNa(key_dataset_file.rows)
             /\ key_columns # <<"Keywords">>
             /\ LoadFails(key_dataset_file) =>
                  key_data.is_none /\ key_columns = <<>> /\ ~button_offered /\ ~IndexBuilt
        /\ key_columns = <<"Keywords">> =>
             ~key_dataset_file.uploaded /\ manual_keywords # <<>> /\ ManualTable

\* a run that ended with a keyword file that failed to load beside a non-empty
\* manual text and a selected description column
C10_Witness ==
    /\ pc = "done"
    /\ LoadFails(key_dataset_file)
    /\ manual_keywords # <<>>
    /\ desc_columns # <<>>
    /\ ~button_offered

====
